---- MODULE Spec2Model ----
(***************************************************************************)
(* Model of the ingestion engine of bin/json.js: jsonIn (whole-document    *)
(* parse, then line mode), processLine and parseLine.                      *)
(*                                                                         *)
(* Text is a sequence of one-character strings.  A JSON value is a record  *)
(* [t, n, s, kids]: t is the type tag, n the number (or 1/0 for a          *)
(* boolean), s the characters of a string, kids the members of an object   *)
(* (in insertion order, as JavaScript keeps them) or the elements of an    *)
(* array (with an empty key).                                              *)
(***************************************************************************)
EXTENDS Integers, Sequences, FiniteSets, TLC

(***************************************************************************)
(* Bounds                                                                  *)
(***************************************************************************)
MaxLines == 3

(***************************************************************************)
(* JavaScript string operations (indices are 0-based as in the source)     *)
(***************************************************************************)
\* const v = ...; body: the value is named once and used in body
Bind(v, body(_)) == body(v)

startsWith(s, p) == Len(s) >= Len(p) /\ SubSeq(s, 1, Len(p)) = p

endsWith(s, p) == Len(s) >= Len(p) /\ SubSeq(s, Len(s) - Len(p) + 1, Len(s)) = p

\* the 0-based index of the first c at or after position i (1-based), or -1
RECURSIVE indexFrom(_, _, _)
indexFrom(s, c, i) ==
  IF i > Len(s) THEN -1
  ELSE IF s[i] = c THEN i - 1
  ELSE indexFrom(s, c, i + 1)

indexOf(s, c) == indexFrom(s, c, 1)

substring(s, from, to) == SubSeq(s, from + 1, to)

RECURSIVE join(_, _)
join(ls, sep) ==
  IF Len(ls) = 0 THEN <<>>
  ELSE IF Len(ls) = 1 THEN ls[1]
  ELSE ls[1] \o sep \o join(Tail(ls), sep)

IsSpace(c) == c \in {" ", "\n", "\t", "\r"}

RECURSIVE trimStart(_)
trimStart(s) == IF Len(s) > 0 /\ IsSpace(s[1]) THEN trimStart(Tail(s)) ELSE s

RECURSIVE trimEnd(_)
trimEnd(s) ==
  IF Len(s) > 0 /\ IsSpace(s[Len(s)]) THEN trimEnd(SubSeq(s, 1, Len(s) - 1)) ELSE s

trim(s) == trimEnd(trimStart(s))

\* s.split(sep) for a one-character separator: always at least one piece
RECURSIVE split(_, _)
split(s, sep) ==
  Bind(indexOf(s, sep), LAMBDA i :
    IF i < 0 THEN <<s>>
    ELSE <<substring(s, 0, i)>> \o split(substring(s, i + 1, Len(s)), sep))

(***************************************************************************)
(* JSON values                                                             *)
(***************************************************************************)
JVal(t, n, s, kids) == [t |-> t, n |-> n, s |-> s, kids |-> kids]

Undefined == JVal("undefined", 0, <<>>, <<>>)
JNull == JVal("null", 0, <<>>, <<>>)
JBool(b) == JVal("bool", IF b THEN 1 ELSE 0, <<>>, <<>>)
JNum(n) == JVal("num", n, <<>>, <<>>)
JStr(s) == JVal("str", 0, s, <<>>)
JArr(kids) == JVal("arr", 0, <<>>, kids)
JObj(kids) == JVal("obj", 0, <<>>, kids)
Member(k, v) == [k |-> k, v |-> v]

\* JavaScript truthiness of a value: undefined, null, false, 0 and "" are falsy
Truthy(v) ==
  CASE v.t \in {"undefined", "null"} -> FALSE
    [] v.t = "bool" -> v.n = 1
    [] v.t = "num" -> v.n # 0
    [] v.t = "str" -> Len(v.s) > 0
    [] OTHER -> TRUE

HasProp(o, k) == \E i \in 1..Len(o.kids) : o.kids[i].k = k

\* o[k]: the member's value, undefined when o has no such member
GetProp(o, k) ==
  IF o.t = "obj" /\ HasProp(o, k)
  THEN o.kids[CHOOSE i \in 1..Len(o.kids) : o.kids[i].k = k].v
  ELSE Undefined

\* o[k] = v: an existing member keeps its position, a new one is added last
SetProp(o, k, v) ==
  IF HasProp(o, k)
  THEN [o EXCEPT !.kids = [i \in 1..Len(o.kids) |->
          IF o.kids[i].k = k THEN Member(k, v) ELSE o.kids[i]]]
  ELSE [o EXCEPT !.kids = Append(o.kids, Member(k, v))]

(***************************************************************************)
(* JSON.parse, by recursive descent over the text.  A parse step returns   *)
(* [ok, v, i]: success, the value, and the position after it.  Fractions,  *)
(* exponents and \u escapes are outside the alphabet of the modelled       *)
(* inputs.                                                                 *)
(***************************************************************************)
PFail == [ok |-> FALSE, v |-> Undefined, i |-> 0]
POk(v, i) == [ok |-> TRUE, v |-> v, i |-> i]

IsJsonWs(c) == c \in {" ", "\n", "\t", "\r"}
Digits == <<"0", "1", "2", "3", "4", "5", "6", "7", "8", "9">>
IsDigit(c) == \E d \in 1..10 : Digits[d] = c
DigitVal(c) == (CHOOSE d \in 1..10 : Digits[d] = c) - 1

RECURSIVE SkipWs(_, _)
SkipWs(s, i) == IF i <= Len(s) /\ IsJsonWs(s[i]) THEN SkipWs(s, i + 1) ELSE i

MatchAt(s, i, w) == i + Len(w) - 1 <= Len(s) /\ SubSeq(s, i, i + Len(w) - 1) = w

Unescape(c) ==
  CASE c = "n" -> "\n"
    [] c = "t" -> "\t"
    [] c = "r" -> "\r"
    [] OTHER -> c

\* the characters of a string literal, from the position after the opening quote
RECURSIVE ParseChars(_, _, _)
ParseChars(s, i, acc) ==
  IF i > Len(s) THEN PFail
  ELSE IF s[i] = "\"" THEN POk(JStr(acc), i + 1)
  ELSE IF s[i] \in {"\n", "\t", "\r"} THEN PFail
  ELSE IF s[i] = "\\"
       THEN IF i + 1 <= Len(s) /\ s[i + 1] \in {"\"", "\\", "/", "n", "t", "r"}
            THEN ParseChars(s, i + 2, Append(acc, Unescape(s[i + 1])))
            ELSE PFail
  ELSE ParseChars(s, i + 1, Append(acc, s[i]))

RECURSIVE ParseDigits(_, _, _)
ParseDigits(s, i, acc) ==
  IF i <= Len(s) /\ IsDigit(s[i])
  THEN ParseDigits(s, i + 1, acc * 10 + DigitVal(s[i]))
  ELSE POk(JNum(acc), i)

\* an integer literal: no leading zeros, optional minus sign
ParseUnsigned(s, j) ==
  IF j > Len(s) \/ ~IsDigit(s[j]) THEN PFail
  ELSE IF s[j] = "0" THEN POk(JNum(0), j + 1)
  ELSE ParseDigits(s, j, 0)

ParseNumber(s, i) ==
  IF i <= Len(s) /\ s[i] = "-"
  THEN Bind(ParseUnsigned(s, i + 1), LAMBDA r :
         IF r.ok THEN POk(JNum(0 - r.v.n), r.i) ELSE PFail)
  ELSE ParseUnsigned(s, i)

RECURSIVE ParseValue(_, _)
RECURSIVE ParseElements(_, _, _)
RECURSIVE ParseMembers(_, _, _)

\* array elements, from a position where a value must start
ParseElements(s, i, acc) ==
  Bind(ParseValue(s, i), LAMBDA e :
    IF ~e.ok THEN PFail
    ELSE Bind(SkipWs(s, e.i), LAMBDA j :
      IF j > Len(s) THEN PFail
      ELSE IF s[j] = "]" THEN POk(JArr(Append(acc, Member(<<>>, e.v))), j + 1)
      ELSE IF s[j] = "," THEN ParseElements(s, j + 1, Append(acc, Member(<<>>, e.v)))
      ELSE PFail))

\* object members, from a position where a key must start (after whitespace)
ParseMembers(s, i, acc) ==
  Bind(SkipWs(s, i), LAMBDA k0 :
    IF k0 > Len(s) \/ s[k0] # "\"" THEN PFail
    ELSE Bind(ParseChars(s, k0 + 1, <<>>), LAMBDA k :
      IF ~k.ok THEN PFail
      ELSE Bind(SkipWs(s, k.i), LAMBDA c :
        IF c > Len(s) \/ s[c] # ":" THEN PFail
        ELSE Bind(ParseValue(s, c + 1), LAMBDA e :
          IF ~e.ok THEN PFail
          ELSE Bind(SkipWs(s, e.i), LAMBDA j :
            IF j > Len(s) THEN PFail
            ELSE IF s[j] = "}" THEN POk(SetProp(acc, k.v.s, e.v), j + 1)
            ELSE IF s[j] = "," THEN ParseMembers(s, j + 1, SetProp(acc, k.v.s, e.v))
            ELSE PFail)))))

\* the rest of an object or an array, from the position after its bracket
ParseContainer(s, i, close) ==
  Bind(SkipWs(s, i), LAMBDA j :
    IF j <= Len(s) /\ s[j] = close
    THEN POk(IF close = "}" THEN JObj(<<>>) ELSE JArr(<<>>), j + 1)
    ELSE IF close = "}" THEN ParseMembers(s, i, JObj(<<>>))
    ELSE ParseElements(s, i, <<>>))

ParseValue(s, i0) ==
  Bind(SkipWs(s, i0), LAMBDA i :
    IF i > Len(s) THEN PFail
    ELSE IF s[i] = "{" THEN ParseContainer(s, i + 1, "}")
    ELSE IF s[i] = "[" THEN ParseContainer(s, i + 1, "]")
    ELSE IF s[i] = "\"" THEN ParseChars(s, i + 1, <<>>)
    ELSE IF MatchAt(s, i, <<"t", "r", "u", "e">>) THEN POk(JBool(TRUE), i + 4)
    ELSE IF MatchAt(s, i, <<"f", "a", "l", "s", "e">>) THEN POk(JBool(FALSE), i + 5)
    ELSE IF MatchAt(s, i, <<"n", "u", "l", "l">>) THEN POk(JNull, i + 4)
    ELSE ParseNumber(s, i))

\* JSON.parse(text): [ok, v]; ok = FALSE stands for the SyntaxError it throws
JSONparse(s) ==
  Bind(ParseValue(s, 1), LAMBDA r :
    IF r.ok /\ SkipWs(s, r.i) = Len(s) + 1
    THEN [ok |-> TRUE, v |-> r.v]
    ELSE [ok |-> FALSE, v |-> Undefined])

(***************************************************************************)
(* The lines the modelled inputs are made of                               *)
(***************************************************************************)
\* a line that opens a block
LOpen == <<"{">>

\* a line that closes a block
LClose == <<"}">>

\* a body line of a pretty-printed object; plain text on its own
LBody == <<"\"", "k", "\"", ":", " ", "1">>

\* a body line that carries the closing brace
LBodyClose == <<"\"", "k", "\"", ":", " ", "1", "}">>

\* a single-line JSON object
LObj == <<"{", "\"", "a", "\"", ":", "1", "}">>

\* a log line: text, then a JSON object
LPrefixed == <<"t", "e", "x", "t", "{", "\"", "a", "\"", ":", "1", "}">>

\* a log line whose object defines _line itself
LPrefixedOwn == <<"t", "e", "x", "t", "{", "\"", "a", "\"", ":", "1", ",", "\"", "_", "l", "i", "n", "e", "\"", ":", "\"", "x", "\"", "}">>

\* a log line whose object defines _line as 0
LPrefixedFalsy == <<"t", "{", "\"", "_", "l", "i", "n", "e", "\"", ":", "0", "}">>

\* a log line whose text starts with a bracket
LBracketPrefixed == <<"[", "x", "]", "{", "\"", "a", "\"", ":", "1", "}">>

\* a malformed JSON-looking line
LBad == <<"{", "\"", "a", "\"", ":", " ", "}">>

\* a malformed array-looking line
LBadArr == <<"[", "1", ",", "]">>

\* a single-line JSON array
LArr == <<"[", "1", "]">>

\* a JSON scalar on a line
LNum == <<"1">>

\* a JSON object after leading whitespace
LPadded == <<" ", "{", "\"", "a", "\"", ":", "1", "}">>

\* an empty line
LEmpty == <<>>

RawLines ==
  {LOpen, LClose, LBody, LBodyClose, LObj,
   LPrefixed, LPrefixedOwn, LPrefixedFalsy, LBracketPrefixed, LBad,
   LBadArr, LArr, LNum, LPadded, LEmpty}

(***************************************************************************)
(* parseLine(line, openLines): the result object {openLines, parsedLine,   *)
(* error}; a field the code leaves unset is Undefined.                     *)
(***************************************************************************)
RawLineKey == <<"_", "l", "i", "n", "e">>
LineErrorKey == <<"_", "l", "i", "n", "e", "E", "r", "r", "o", "r">>

\* err.stack of the SyntaxError JSON.parse throws, as one token
ErrStack == <<"SyntaxError">>

\* the Record of the catch block carries the raw line only
parseLineCatch_NoMarker(line, resultOpenLines) ==
  [openLines |-> <<>>,
   parsedLine |-> JObj(<<Member(RawLineKey, JStr(line))>>),
   error |-> JStr(<<"Error thrown parsing line: ">> \o line \o <<" - ">> \o ErrStack)]

\* the catch block leaves result.openLines as it was
parseLineCatch_KeepsOpen(line, resultOpenLines) ==
  [openLines |-> resultOpenLines,
   parsedLine |-> JObj(<<Member(RawLineKey, JStr(line)),
                         Member(LineErrorKey,
                                JStr(<<"Error thrown parsing line - ">> \o ErrStack))>>),
   error |-> JStr(<<"Error thrown parsing line: ">> \o line \o <<" - ">> \o ErrStack)]

\* the catch block: a parse threw while result.openLines was resultOpenLines
parseLineCatch(line, resultOpenLines) ==
  [openLines |-> <<>>,
   parsedLine |-> JObj(<<Member(RawLineKey, JStr(line)),
                         Member(LineErrorKey,
                                JStr(<<"Error thrown parsing line - ">> \o ErrStack))>>),
   error |-> JStr(<<"Error thrown parsing line: ">> \o line \o <<" - ">> \o ErrStack)]

\* only lines with an object are taken for JSON
looksLikeJson_ObjectsOnly(line) ==
  indexOf(line, "{") >= 0 /\ endsWith(line, <<"}">>)

\* the condition of the first branch, without the openLines test
looksLikeJson(line) ==
  \/ indexOf(line, "{") >= 0 /\ endsWith(line, <<"}">>)
  \/ startsWith(line, <<"[">>) /\ endsWith(line, <<"]">>)

\* the text JSON.parse is called on when the line closes a block
closeText(line, openLines) == join(openLines, <<"\n">>)

\* the prefix is injected when the parsed document has no truthy _line
injectsPrefix(doc) == ~Truthy(GetProp(doc, RawLineKey))

\* where the JSON of a line is taken to start
openIndex(line) == IF startsWith(line, <<"[">>) THEN 0 ELSE indexOf(line, "{")

\* the first branch: parse from openIndex on, inject the prefix
parseJsonLine(line, openLines, at) ==
  Bind(JSONparse(substring(line, at, Len(line))), LAMBDA p :
    IF ~p.ok THEN parseLineCatch(line, openLines)
    ELSE [openLines |-> openLines,
          parsedLine |-> IF at > 0 /\ injectsPrefix(p.v)
                         THEN SetProp(p.v, RawLineKey, JStr(substring(line, 0, at)))
                         ELSE p.v,
          error |-> Undefined])

\* a block whose text does not parse is dropped without a Record
parseBlock_DropsFailed(line, openLines) ==
  Bind(JSONparse(closeText(line, openLines)), LAMBDA p :
    IF ~p.ok
    THEN [openLines |-> <<>>, parsedLine |-> Undefined,
          error |-> JStr(<<"Error thrown parsing line: ">> \o line \o <<" - ">> \o ErrStack)]
    ELSE [openLines |-> <<>>, parsedLine |-> p.v, error |-> Undefined])

\* the branch of a line that closes the open block
parseBlock(line, openLines) ==
  Bind(JSONparse(closeText(line, openLines)), LAMBDA p :
    IF ~p.ok THEN parseLineCatch(line, Append(openLines, line))
    ELSE [openLines |-> <<>>, parsedLine |-> p.v, error |-> Undefined])

parseLine(line, openLines) ==
  IF Len(openLines) = 0 /\ looksLikeJson(line)
  THEN parseJsonLine(line, openLines, openIndex(line))
  ELSE IF line = <<"{">>
  THEN [openLines |-> <<line>>, parsedLine |-> Undefined, error |-> Undefined]
  ELSE IF Len(openLines) > 0
  THEN IF line = <<"}">>
       THEN parseBlock(line, openLines)
       ELSE [openLines |-> Append(openLines, line),
             parsedLine |-> Undefined, error |-> Undefined]
  ELSE [openLines |-> openLines,
        parsedLine |-> JObj(<<Member(RawLineKey, JStr(line))>>),
        error |-> Undefined]

(***************************************************************************)
(* The two line sources of jsonIn                                          *)
(***************************************************************************)
RECURSIVE filterNonEmpty(_)
filterNonEmpty(ls) ==
  IF Len(ls) = 0 THEN <<>>
  ELSE IF Len(ls[1]) > 0 THEN <<ls[1]>> \o filterNonEmpty(Tail(ls))
  ELSE filterNonEmpty(Tail(ls))

\* textInput.trim().split("\n").map((l) => l.trim()).filter(Boolean)
textLines(text) ==
  Bind(split(trim(text), "\n"), LAMBDA raw :
    filterNonEmpty([i \in 1..Len(raw) |-> trim(raw[i])]))

\* the lines readline yields for a file: split at each newline, untrimmed,
\* empty lines kept, no line after a final newline
readlineLines(text) ==
  IF Len(text) = 0 THEN <<>>
  ELSE Bind(split(text, "\n"), LAMBDA raw :
         IF text[Len(text)] = "\n" THEN SubSeq(raw, 1, Len(raw) - 1) ELSE raw)

(***************************************************************************)
(* State of one jsonIn call                                                *)
(***************************************************************************)
VARIABLES
  filePath,     \* TRUE: a file path was given; FALSE: standard input
  content,      \* the text of the file, or of standard input (textInput)
  pc,           \* "start", "lines" (the for loop of line mode), "done", "failed"
  pending,      \* the lines the for loop has not reached yet
  lines,        \* the Records collected by line mode
  openLines,    \* the lines of the open block
  nErrors,      \* lines whose parseLine result carried an error
  lineCount,    \* calls of processLine
  docParses,    \* whole-document parse attempts made
  returned,     \* what jsonIn returned, Undefined before it returns
  seen,         \* history: for each processLine call, the line, the openLines
                \* it met, the Record parseLine gave, and the values of
                \* lines.length and nErrors after it
  values,       \* the array given to stats
  statsResult,  \* what stats returned, NoStats before it returns
  env,          \* process.env: JSON_OUTPUT and JSON_STRINGIFIER, "" when unset
  processedData,    \* the value eval(code) gave main
  JSON_OUTPUT,      \* main's constant of that name, "" before it is set
  JSON_STRINGIFIER, \* main's constant of that name, "" before it is set
  mainPc,       \* "options", "output", "printed", "thrown"
  printed       \* the arguments of the console.log calls main has made

vars == <<filePath, content, pc, pending, lines, openLines, nErrors, lineCount,
          docParses, returned, seen, values, statsResult,
          env, processedData, JSON_OUTPUT, JSON_STRINGIFIER, mainPc, printed>>

\* the state of the output part of main
mainVars == <<env, processedData, JSON_OUTPUT, JSON_STRINGIFIER, mainPc, printed>>

\* the state of stats in helpers.js
helperVars == <<values, statsResult>>

\* the state jsonIn does not touch
outsideJsonIn == <<helperVars, mainVars>>

\* stats has not returned
NoStats == [count |-> 0]

\* stats is not called
StatsNotCalled == values = <<>> /\ statsResult = NoStats

\* main has not reached its output part
MainNotCalled ==
  /\ env = [JSON_OUTPUT |-> "", JSON_STRINGIFIER |-> ""]
  /\ processedData = Undefined
  /\ JSON_OUTPUT = ""
  /\ JSON_STRINGIFIER = ""
  /\ mainPc = "options"
  /\ printed = <<>>

\* the state of jsonIn
jsonInVars == <<filePath, content, pc, pending, lines, openLines, nErrors, lineCount,
                docParses, returned, seen>>

\* the text given to jsonIn: 1..MaxLines lines joined by newlines
Init ==
  /\ filePath \in BOOLEAN
  /\ \E n \in 1..MaxLines : \E q \in [1..n -> RawLines] : content = join(q, <<"\n">>)
  /\ pc = "start"
  /\ pending = <<>>
  /\ lines = <<>>
  /\ openLines = <<>>
  /\ nErrors = 0
  /\ lineCount = 0
  /\ docParses = 0
  /\ returned = Undefined
  /\ seen = <<>>
  /\ StatsNotCalled
  /\ MainNotCalled

\* the return is lost: line mode runs although the document parsed
ParseDocument_NoReturn ==
  /\ pc = "start"
  /\ docParses' = docParses + 1
  /\ pc' = "lines"
  /\ returned' = returned
  /\ pending' = IF filePath THEN readlineLines(content) ELSE textLines(content)
  /\ UNCHANGED <<filePath, content, lines, openLines, nErrors, lineCount, seen>>
  /\ UNCHANGED outsideJsonIn

\* try { return JSON.parse(<the whole text>) } catch (jsonErr) { <line mode> }
ParseDocument ==
  /\ pc = "start"
  /\ docParses' = docParses + 1
  /\ \E p \in {JSONparse(content)} :
       IF p.ok
       THEN /\ pc' = "done"
            /\ returned' = p.v
            /\ pending' = pending
       ELSE /\ pc' = "lines"
            /\ returned' = returned
            /\ pending' = IF filePath THEN readlineLines(content) ELSE textLines(content)
  /\ UNCHANGED <<filePath, content, lines, openLines, nErrors, lineCount, seen>>
  /\ UNCHANGED outsideJsonIn

\* a Record equal to one already collected is not collected again
processLine_Dedup(line) ==
  Bind(parseLine(line, openLines), LAMBDA result :
    [nErrors |-> IF Truthy(result.error) THEN nErrors + 1 ELSE nErrors,
     lines |-> IF Truthy(result.parsedLine)
                  /\ ~\E n \in 1..Len(lines) : lines[n] = result.parsedLine
               THEN Append(lines, result.parsedLine)
               ELSE lines,
     openLines |-> result.openLines,
     parsedLine |-> result.parsedLine])

\* a line whose parse threw adds its error to the Records as well
processLine_PushesError(line) ==
  Bind(parseLine(line, openLines), LAMBDA result :
    [nErrors |-> IF Truthy(result.error) THEN nErrors + 1 ELSE nErrors,
     lines |-> IF Truthy(result.error)
               THEN Append(Append(lines, result.parsedLine), result.error)
               ELSE IF Truthy(result.parsedLine) THEN Append(lines, result.parsedLine)
               ELSE lines,
     openLines |-> result.openLines,
     parsedLine |-> result.parsedLine])

\* every raw-text Record is counted as an error
processLine_CountsRaw(line) ==
  Bind(parseLine(line, openLines), LAMBDA result :
    [nErrors |-> IF Truthy(result.error) \/ HasProp(result.parsedLine, RawLineKey)
                 THEN nErrors + 1 ELSE nErrors,
     lines |-> IF Truthy(result.parsedLine) THEN Append(lines, result.parsedLine)
               ELSE lines,
     openLines |-> result.openLines,
     parsedLine |-> result.parsedLine])

\* the new values of lines, openLines, nErrors after processLine(line), and the
\* Record parseLine gave
processLine(line) ==
  Bind(parseLine(line, openLines), LAMBDA result :
    [nErrors |-> IF Truthy(result.error) THEN nErrors + 1 ELSE nErrors,
     lines |-> IF Truthy(result.parsedLine) THEN Append(lines, result.parsedLine)
               ELSE lines,
     openLines |-> result.openLines,
     parsedLine |-> result.parsedLine])

\* one iteration of the for loop over the lines
ProcessLine ==
  /\ pc = "lines"
  /\ Len(pending) > 0
  /\ \E after \in {processLine(Head(pending))} :
        /\ lineCount' = lineCount + 1
        /\ nErrors' = after.nErrors
        /\ lines' = after.lines
        /\ openLines' = after.openLines
        /\ seen' = Append(seen, [line |-> Head(pending), open |-> openLines,
                                 rec |-> after.parsedLine,
                                 count |-> Len(after.lines),
                                 errors |-> after.nErrors])
  /\ pending' = Tail(pending)
  /\ UNCHANGED <<filePath, content, pc, docParses, returned>>
  /\ UNCHANGED outsideJsonIn

\* a block left open at the end of the input is an error
ReturnLines_ThrowsOnOpen ==
  /\ pc = "lines"
  /\ Len(pending) = 0
  /\ pc' = IF Len(openLines) > 0 THEN "failed" ELSE "done"
  /\ returned' = IF Len(openLines) > 0 THEN returned
                 ELSE JArr([i \in 1..Len(lines) |-> Member(<<>>, lines[i])])
  /\ UNCHANGED <<filePath, content, pending, lines, openLines, nErrors, lineCount,
                 docParses, seen>>
  /\ UNCHANGED outsideJsonIn

\* the loop is over: return lines
ReturnLines ==
  /\ pc = "lines"
  /\ Len(pending) = 0
  /\ pc' = "done"
  /\ returned' = JArr([i \in 1..Len(lines) |-> Member(<<>>, lines[i])])
  /\ UNCHANGED <<filePath, content, pending, lines, openLines, nErrors, lineCount,
                 docParses, seen>>
  /\ UNCHANGED outsideJsonIn

\* the error is degraded: the Records collected so far are returned
StreamError_ReturnsPartial ==
  /\ pc = "lines"
  /\ filePath
  /\ pc' = "done"
  /\ returned' = JArr([i \in 1..Len(lines) |-> Member(<<>>, lines[i])])
  /\ UNCHANGED <<filePath, content, pending, lines, openLines, nErrors, lineCount,
                 docParses, seen>>
  /\ UNCHANGED outsideJsonIn

\* the read stream of the file raises: catch (linesErr) { throw new Error(...) }
StreamError ==
  /\ pc = "lines"
  /\ filePath
  /\ pc' = "failed"
  /\ UNCHANGED <<filePath, content, pending, lines, openLines, nErrors, lineCount,
                 docParses, returned, seen>>
  /\ UNCHANGED outsideJsonIn

Next == ParseDocument \/ ProcessLine \/ ReturnLines \/ StreamError

Spec == Init /\ [][Next]_vars

TypeOK ==
  /\ pc \in {"start", "lines", "done", "failed"}
  /\ lineCount = Len(seen)
  /\ nErrors \in 0..lineCount
  /\ docParses \in 0..1

(***************************************************************************)
(* helpers.js: stats(values) and percentile(arr, p).  A quotient is kept   *)
(* as the fraction [num, den] of the division that computes it, and the    *)
(* percentile p is given as the fraction pn / pd.  Of the fields of the    *)
(* stats object the model keeps count, min, max, sum, avg and p50.         *)
(***************************************************************************)
MaxCount == 3
MaxValue == 2

Frac(num, den) == [num |-> num, den |-> den]

\* values.reduce((acc, v) => acc + v, 0)
RECURSIVE reduceSum(_, _)
reduceSum(arr, acc) ==
  IF Len(arr) = 0 THEN acc ELSE reduceSum(Tail(arr), acc + Head(arr))

\* Math.min(...values)
RECURSIVE mathMin(_)
mathMin(arr) ==
  IF Len(arr) = 1 THEN arr[1]
  ELSE IF arr[1] <= mathMin(Tail(arr)) THEN arr[1] ELSE mathMin(Tail(arr))

\* Math.max(...values)
RECURSIVE mathMax(_)
mathMax(arr) ==
  IF Len(arr) = 1 THEN arr[1]
  ELSE IF arr[1] >= mathMax(Tail(arr)) THEN arr[1] ELSE mathMax(Tail(arr))

\* v put into an ascending array, after the elements equal to it
RECURSIVE insertSorted(_, _)
insertSorted(sorted, v) ==
  IF Len(sorted) = 0 THEN <<v>>
  ELSE IF v < sorted[1] THEN <<v>> \o sorted
  ELSE <<sorted[1]>> \o insertSorted(Tail(sorted), v)

\* [...arr].sort((a, b) => a - b): an ascending copy
RECURSIVE sortAscending(_)
sortAscending(arr) ==
  IF Len(arr) = 0 THEN <<>>
  ELSE insertSorted(sortAscending(SubSeq(arr, 1, Len(arr) - 1)), arr[Len(arr)])

\* percentile(arr, pn / pd) for 0 < pn / pd < 1: index * pd is scaled,
\* weight * pd is scaled % pd
percentile(arr, pn, pd) ==
  Bind(sortAscending(arr), LAMBDA sorted :
    Bind(pn * (Len(sorted) - 1), LAMBDA scaled :
      Bind(scaled \div pd, LAMBDA lower :
        Bind(IF scaled % pd = 0 THEN lower ELSE lower + 1, LAMBDA upper :
          Frac(sorted[lower + 1] * (pd - (scaled % pd))
                 + sorted[upper + 1] * (scaled % pd), pd)))))

\* stats(values) sorts its argument in place
stats_SortsInPlace(arr) ==
  [count |-> Len(arr),
   min |-> mathMin(arr),
   max |-> mathMax(arr),
   sum |-> reduceSum(arr, 0),
   avg |-> Frac(reduceSum(arr, 0), Len(arr)),
   p50 |-> percentile(arr, 1, 2),
   values |-> sortAscending(arr)]

\* stats(values): the object returned, and the array as the call leaves it
stats(arr) ==
  [count |-> Len(arr),
   min |-> mathMin(arr),
   max |-> mathMax(arr),
   sum |-> reduceSum(arr, 0),
   avg |-> Frac(reduceSum(arr, 0), Len(arr)),
   p50 |-> percentile(arr, 1, 2),
   values |-> arr]

\* jsonIn is not called
JsonInNotCalled ==
  /\ filePath = FALSE
  /\ content = <<>>
  /\ pc = "start"
  /\ pending = <<>>
  /\ lines = <<>>
  /\ openLines = <<>>
  /\ nErrors = 0
  /\ lineCount = 0
  /\ docParses = 0
  /\ returned = Undefined
  /\ seen = <<>>

\* a non-empty array of integers is given to stats
StatsInit ==
  /\ \E n \in 1..MaxCount : values \in [1..n -> (0 - MaxValue)..MaxValue]
  /\ statsResult = NoStats
  /\ JsonInNotCalled
  /\ MainNotCalled

\* const result = stats(values)
Stats ==
  /\ statsResult = NoStats
  /\ \E r \in {stats(values)} :
       /\ statsResult' = [count |-> r.count, min |-> r.min, max |-> r.max,
                          sum |-> r.sum, avg |-> r.avg, p50 |-> r.p50]
       /\ values' = r.values
  /\ UNCHANGED <<jsonInVars, mainVars>>

StatsNext == Stats

StatsSpec == StatsInit /\ [][StatsNext]_vars

(***************************************************************************)
(* The output part of main: the options are read from the environment and *)
(* checked, then the evaluated result is printed.  A console.log call is   *)
(* kept by its argument: the data, the stringifier that made the text      *)
(* ("none" when the value itself is logged), and whether colorize was      *)
(* applied.                                                                *)
(***************************************************************************)
VALID_JSON_OUTPUT_TYPES == {"json", "json_pretty", "raw", "jsonl"}

VALID_JSON_STRINGIFIERS == {"stable", "default"}

\* the values JSON_OUTPUT has in the environment: unset, valid, or something else
EnvOutputs == VALID_JSON_OUTPUT_TYPES \cup {"", "yaml"}

\* the values JSON_STRINGIFIER has in the environment
EnvStringifiers == VALID_JSON_STRINGIFIERS \cup {"", "fast"}

\* the values eval(code) gives: scalars, null, arrays and objects
Results ==
  {JNum(1), JStr(<<"a">>), JBool(TRUE), JNull,
   JArr(<<>>), JArr(<<Member(<<>>, JNum(1)), Member(<<>>, JObj(<<>>))>>),
   JObj(<<>>), JObj(<<Member(<<"a">>, JNum(1))>>)}

\* typeof v
typeof(v) ==
  CASE v.t = "str" -> "string"
    [] v.t = "num" -> "number"
    [] v.t = "bool" -> "boolean"
    [] v.t = "undefined" -> "undefined"
    [] OTHER -> "object"

\* the argument of console.log(v)
logged(v) == [stringifier |-> "none", colorized |-> FALSE, data |-> v]

\* jsonStringify(data, stringifier), for a valid stringifier
jsonStringify(data, stringifier) ==
  [stringifier |-> stringifier, colorized |-> FALSE, data |-> data]

colorize(text) == [text EXCEPT !.colorized = TRUE]

\* printJsonLines(data): one console.log per element, default stringifier
printJsonLines(data) ==
  [i \in 1..Len(data.kids) |-> jsonStringify(data.kids[i].v, "stable")]

printJson(data, stringifier) == <<jsonStringify(data, stringifier)>>

printPrettyJson(data, stringifier) == <<colorize(jsonStringify(data, stringifier))>>

\* process.env.X || fallback
orDefault(value, fallback) == IF value = "" THEN fallback ELSE value

\* main has the evaluated result and is about to read its options
MainInit ==
  /\ env \in [JSON_OUTPUT : EnvOutputs, JSON_STRINGIFIER : EnvStringifiers]
  /\ processedData \in Results
  /\ JSON_OUTPUT = ""
  /\ JSON_STRINGIFIER = ""
  /\ mainPc = "options"
  /\ printed = <<>>
  /\ JsonInNotCalled
  /\ StatsNotCalled

\* const JSON_OUTPUT = ...; check; const JSON_STRINGIFIER = ...; check
ReadOptions ==
  /\ mainPc = "options"
  /\ JSON_OUTPUT' = orDefault(env.JSON_OUTPUT, "json_pretty")
  /\ IF JSON_OUTPUT' \notin VALID_JSON_OUTPUT_TYPES
     THEN /\ mainPc' = "thrown"
          /\ JSON_STRINGIFIER' = JSON_STRINGIFIER
     ELSE /\ JSON_STRINGIFIER' = orDefault(env.JSON_STRINGIFIER, "stable")
          /\ mainPc' = IF JSON_STRINGIFIER' \notin VALID_JSON_STRINGIFIERS
                       THEN "thrown" ELSE "output"
  /\ UNCHANGED <<env, processedData, printed, jsonInVars, helperVars>>

\* the if chain that prints processedData
Output ==
  /\ mainPc = "output"
  /\ IF JSON_OUTPUT = "raw" \/ typeof(processedData) \in {"string", "number", "boolean"}
     THEN printed' = <<logged(processedData)>> /\ mainPc' = "printed"
     ELSE IF JSON_OUTPUT = "jsonl" /\ processedData.t = "arr"
     THEN printed' = printJsonLines(processedData) /\ mainPc' = "printed"
     ELSE IF JSON_OUTPUT = "json"
     THEN printed' = printJson(processedData, JSON_STRINGIFIER) /\ mainPc' = "printed"
     ELSE IF JSON_OUTPUT = "json_pretty"
     THEN printed' = printPrettyJson(processedData, JSON_STRINGIFIER) /\ mainPc' = "printed"
     ELSE printed' = printed /\ mainPc' = "thrown"
  /\ UNCHANGED <<env, processedData, JSON_OUTPUT, JSON_STRINGIFIER, jsonInVars, helperVars>>

MainNext == ReadOptions \/ Output

MainSpec == MainInit /\ [][MainNext]_vars

(***************************************************************************)
(* Reading the history of line mode                                        *)
(***************************************************************************)
LineMode == pc \in {"lines", "done", "failed"} /\ ~JSONparse(content).ok

Calls == 1..Len(seen)

\* Records collected before the i-th processLine call
CountBefore(i) == IF i = 1 THEN 0 ELSE seen[i - 1].count

\* the i-th call emitted exactly one Record / no Record
Emitted(i) == seen[i].count = CountBefore(i) + 1
Silent(i) == seen[i].count = CountBefore(i)

\* the Record the i-th call emitted
RecordOf(i) == lines[seen[i].count]

\* the open-block state the i-th call left behind
OpenAfter(i) == IF i < Len(seen) THEN seen[i + 1].open ELSE openLines

\* the lines of calls j..i, joined by newlines
BlockText(j, i) == join([n \in 1..(i - j + 1) |-> seen[j + n - 1].line], <<"\n">>)

\* calls j..i are a block: `{` met with no block open, no `}` line before i, `}` at i
IsBlock(j, i) ==
  /\ j < i
  /\ seen[j].line = LOpen
  /\ seen[j].open = <<>>
  /\ seen[i].line = LClose
  /\ \A n \in (j + 1)..(i - 1) : seen[n].line # LClose

\* a line P+J met with no block open: P non-empty without `{`, J parses to an object
PrefixOf(line) == substring(line, 0, indexOf(line, "{"))
JsonOf(line) == substring(line, indexOf(line, "{"), Len(line))
IsPrefixedObject(i) ==
  /\ seen[i].open = <<>>
  /\ indexOf(seen[i].line, "{") > 0
  /\ JSONparse(JsonOf(seen[i].line)).ok
  /\ JSONparse(JsonOf(seen[i].line)).v.t = "obj"

(***************************************************************************)
(* C1: a block `{`, body lines, `}` whose newline-joined text is valid     *)
(* JSON emits exactly one Record, the parse of the joined text, at its     *)
(* closing line, and leaves no block open.                                 *)
(***************************************************************************)
C1_BlockParsed ==
  \A i \in Calls : \A j \in 1..(i - 1) :
    (IsBlock(j, i) /\ JSONparse(BlockText(j, i)).ok)
      => /\ \A n \in j..(i - 1) : Silent(n)
         /\ Emitted(i)
         /\ RecordOf(i) = JSONparse(BlockText(j, i)).v
         /\ OpenAfter(i) = <<>>

(***************************************************************************)
(* C2: the whole-document parse is attempted first and exactly once; when  *)
(* it succeeds its value is what jsonIn returns and line mode is never     *)
(* entered; line mode runs only after that attempt has failed.             *)
(***************************************************************************)
C2_DocumentFirst ==
  /\ docParses = (IF pc = "start" THEN 0 ELSE 1)
  /\ pc = "start" => lineCount = 0 /\ pending = <<>>
  /\ JSONparse(content).ok =>
       /\ pc \in {"start", "done"}
       /\ lineCount = 0 /\ pending = <<>> /\ lines = <<>>
       /\ pc = "done" => returned = JSONparse(content).v
  /\ (lineCount > 0 \/ pc \in {"lines", "failed"}) =>
       docParses = 1 /\ ~JSONparse(content).ok

\* a document of several lines was parsed whole and returned
C2_Witness ==
  /\ pc = "done"
  /\ JSONparse(content).ok
  /\ returned = JObj(<<Member(<<"k">>, JNum(1))>>)
  /\ split(content, "\n") = <<LOpen, LBody, LClose>>
  /\ lineCount = 0

(***************************************************************************)
(* C3: a line P+J met with no block open, P a non-empty prefix without     *)
(* `{`, J a JSON object without a _line field, emits the parse of J with   *)
(* the one added field _line = P.                                          *)
(***************************************************************************)
C3_PrefixInjected ==
  \A i \in Calls :
    LET doc == JSONparse(JsonOf(seen[i].line)).v
    IN (IsPrefixedObject(i) /\ ~HasProp(doc, RawLineKey))
         => /\ Emitted(i)
            /\ RecordOf(i) = SetProp(doc, RawLineKey, JStr(PrefixOf(seen[i].line)))

(***************************************************************************)
(* C4: a line P+J met with no block open whose object J defines _line,     *)
(* with any value, emits a Record whose _line is J's own value.            *)
(***************************************************************************)
C4_OwnLineKept ==
  \A i \in Calls :
    LET doc == JSONparse(JsonOf(seen[i].line)).v
    IN (IsPrefixedObject(i) /\ HasProp(doc, RawLineKey))
         => /\ Emitted(i)
            /\ GetProp(RecordOf(i), RawLineKey) = GetProp(doc, RawLineKey)

\* the line has the shape of a JSON container
ContainerShaped(line) ==
  /\ Len(line) > 0
  /\ \/ (\E n \in 1..Len(line) : line[n] = "{") /\ line[Len(line)] = "}"
     \/ line[1] = "[" /\ line[Len(line)] = "]"

\* the lines of the input text
SourceLines == split(content, "\n")

\* the array jsonIn returns for a list of Records
AsArray(records) == JArr([i \in 1..Len(records) |-> Member(<<>>, records[i])])

(***************************************************************************)
(* C5 (as claimed): for a multi-line input whose every line is valid JSON  *)
(* (any JSON value), line mode returns the parses of the lines, in order.  *)
(***************************************************************************)
C5_EveryJsonLine ==
  (/\ pc = "done"
   /\ Len(SourceLines) >= 2
   /\ \A i \in 1..Len(SourceLines) : JSONparse(SourceLines[i]).ok)
    => returned = AsArray([i \in 1..Len(SourceLines) |-> JSONparse(SourceLines[i]).v])

\* the line is the text of a JSON value, with no whitespace around it
IsJsonText(line) ==
  /\ JSONparse(line).ok
  /\ Len(line) > 0 /\ ~IsSpace(line[1]) /\ ~IsSpace(line[Len(line)])

IsContainerText(line) == IsJsonText(line) /\ line[1] \in {"{", "["}

(***************************************************************************)
(* C5 (amended): for a multi-line input whose every line is the text of a  *)
(* JSON value, line mode returns one Record per line, in order: the parse  *)
(* of the line when it is an object or an array, and the raw-text Record   *)
(* {_line: line} when it is a string, number, boolean or null.             *)
(***************************************************************************)
C5_EveryContainerLine ==
  (/\ pc = "done"
   /\ Len(SourceLines) >= 2
   /\ \A i \in 1..Len(SourceLines) : IsJsonText(SourceLines[i]))
    => returned = AsArray([i \in 1..Len(SourceLines) |->
                     IF IsContainerText(SourceLines[i])
                     THEN JSONparse(SourceLines[i]).v
                     ELSE JObj(<<Member(RawLineKey, JStr(SourceLines[i]))>>)])

\* an object line, an array line and a scalar line were returned in that order
C5_Witness ==
  /\ pc = "done"
  /\ SourceLines = <<LObj, LArr, LNum>>
  /\ returned = AsArray(<<JObj(<<Member(<<"a">>, JNum(1))>>),
                          JArr(<<Member(<<>>, JNum(1))>>),
                          JObj(<<Member(RawLineKey, JStr(LNum))>>)>>)

\* a container-shaped line met with no block open, of which no reading parses
IsMalformed(i) ==
  /\ seen[i].open = <<>>
  /\ ContainerShaped(seen[i].line)
  /\ ~JSONparse(seen[i].line).ok
  /\ indexOf(seen[i].line, "{") >= 0 => ~JSONparse(JsonOf(seen[i].line)).ok

(***************************************************************************)
(* C6 (as claimed): a malformed JSON-looking line met with no block open   *)
(* emits exactly one Record, which holds the raw line under _line and no   *)
(* other field.                                                            *)
(***************************************************************************)
C6_RawOnly ==
  \A i \in Calls :
    IsMalformed(i)
      => /\ Emitted(i)
         /\ RecordOf(i) = JObj(<<Member(RawLineKey, JStr(seen[i].line))>>)

(***************************************************************************)
(* C6 (amended): a malformed JSON-looking line met with no block open      *)
(* emits exactly one Record, which holds the raw line under _line and one  *)
(* other field, _lineError, a text starting "Error thrown parsing line".   *)
(***************************************************************************)
C6_RawWithMarker ==
  \A i \in Calls :
    IsMalformed(i)
      => /\ Emitted(i)
         /\ RecordOf(i).t = "obj"
         /\ Len(RecordOf(i).kids) = 2
         /\ GetProp(RecordOf(i), RawLineKey) = JStr(seen[i].line)
         /\ GetProp(RecordOf(i), LineErrorKey).t = "str"
         /\ Head(GetProp(RecordOf(i), LineErrorKey).s) = "Error thrown parsing line - "

\* `{"a": }` and `[1,]` were each met with no block open
C6_Witness ==
  /\ Len(seen) = 2
  /\ seen[1].line = LBad /\ seen[2].line = LBadArr
  /\ IsMalformed(1) /\ IsMalformed(2)
  /\ Len(lines) = 2

\* nErrors before the i-th processLine call
ErrorsBefore(i) == IF i = 1 THEN 0 ELSE seen[i - 1].errors

\* the i-th call made a JSON.parse call, and it threw
ParseAttemptFailed(i) ==
  \/ /\ seen[i].open = <<>>
     /\ ContainerShaped(seen[i].line)
     /\ ~JSONparse(substring(seen[i].line, openIndex(seen[i].line),
                             Len(seen[i].line))).ok
  \/ /\ seen[i].open # <<>>
     /\ seen[i].line = LClose
     /\ ~JSONparse(closeText(seen[i].line, seen[i].open)).ok

(***************************************************************************)
(* C7: nErrors goes up by exactly one at each line on which a JSON parse   *)
(* was attempted and failed, and is unchanged by every other line; so it   *)
(* always equals the number of failed parse attempts so far, and at the    *)
(* end of line mode the number of all of them.                             *)
(***************************************************************************)
C7_ErrorTally ==
  LET failed == {i \in Calls : ParseAttemptFailed(i)}
  IN /\ \A i \in Calls :
          seen[i].errors = ErrorsBefore(i) + (IF i \in failed THEN 1 ELSE 0)
     /\ nErrors = Cardinality(failed)
     /\ Len(seen) > 0 => nErrors = seen[Len(seen)].errors

\* a failed line, a plain-text line and a parsed line: one error at the end
C7_Witness ==
  /\ pc = "done"
  /\ Len(seen) = 3
  /\ seen[1].line = LBad /\ seen[2].line = LBody /\ seen[3].line = LObj
  /\ nErrors = 1

GivenLines == IF filePath THEN readlineLines(content) ELSE textLines(content)

\* the Records parseLine gave in calls 1..n, in order
RECURSIVE RecordsUpTo(_)
RecordsUpTo(n) ==
  IF n = 0 THEN <<>>
  ELSE IF Truthy(seen[n].rec) THEN Append(RecordsUpTo(n - 1), seen[n].rec)
  ELSE RecordsUpTo(n - 1)

\* call k opened a block that no later line closed
IsDangling(k) ==
  /\ seen[k].line = LOpen
  /\ seen[k].open = <<>>
  /\ \A n \in (k + 1)..Len(seen) : seen[n].line # LClose

(***************************************************************************)
(* C9: line mode runs to completion without raising: each call consumes    *)
(* one of the given lines, so the loop ends after as many calls as there   *)
(* are lines; nothing but the file stream makes jsonIn fail; and it ends   *)
(* by returning the Records.  A block still open at the end of the input   *)
(* has emitted no Record, and the Records finalized before it was opened   *)
(* are the result.                                                         *)
(***************************************************************************)
C9_CompletesWithDanglingBlock ==
  /\ LineMode => lineCount + Len(pending) = Len(GivenLines)
  /\ pc = "failed" => filePath
  /\ (pc = "done" /\ LineMode) =>
       /\ pending = <<>>
       /\ lineCount = Len(GivenLines)
       /\ returned = AsArray(RecordsUpTo(Len(seen)))
       /\ \A k \in Calls :
            IsDangling(k) => /\ \A n \in k..Len(seen) : Silent(n)
                             /\ returned = AsArray(RecordsUpTo(k - 1))

\* the input ended inside a block opened after one Record was finalized
C9_Witness ==
  /\ pc = "done"
  /\ ~filePath
  /\ Len(seen) = 3
  /\ seen[1].line = LPrefixed /\ seen[2].line = LOpen /\ seen[3].line = LBody
  /\ IsDangling(2)
  /\ openLines = <<LOpen, LBody>>
  /\ returned = AsArray(<<JObj(<<Member(<<"a">>, JNum(1)),
                                Member(RawLineKey, JStr(<<"t", "e", "x", "t">>))>>)>>)

(***************************************************************************)
(* C10: the Records are in input order: each call appends at most one      *)
(* Record, the one parseLine gave it, at the end of the list, whatever was *)
(* collected before, and a Record once collected stays where it is.        *)
(***************************************************************************)
C10_InputOrder ==
  /\ Len(lines) = (IF Len(seen) = 0 THEN 0 ELSE seen[Len(seen)].count)
  /\ lines = RecordsUpTo(Len(seen))
  /\ \A i \in Calls :
       /\ Truthy(seen[i].rec) => Emitted(i) /\ RecordOf(i) = seen[i].rec
       /\ ~Truthy(seen[i].rec) => Silent(i)
       /\ seen[i].rec = parseLine(seen[i].line, seen[i].open).parsedLine

\* two identical lines gave two equal Records, before a third line's Record
C10_Witness ==
  /\ Len(seen) = 3
  /\ seen[1].line = LObj /\ seen[2].line = LObj /\ seen[3].line = LPrefixed
  /\ Len(lines) = 3
  /\ lines[1] = lines[2]
  /\ lines[3] # lines[1]

(***************************************************************************)
(* C11: every line handed to parseLine has been trimmed of surrounding     *)
(* whitespace and is not empty, whether the lines come from the text of    *)
(* standard input or from a file read line by line.                        *)
(***************************************************************************)
C11_LinesTrimmed ==
  \A i \in Calls : seen[i].line = trim(seen[i].line) /\ Len(seen[i].line) > 0

(***************************************************************************)
(* C12: when the whole-document parse has failed and line mode raises an   *)
(* unexpected error, jsonIn ends by throwing and returns nothing: not the  *)
(* Records collected so far, not an empty list.  A list is returned only   *)
(* by a loop that has run over every line.                                 *)
(***************************************************************************)
C12_HardFailure ==
  /\ pc = "failed" => ~JSONparse(content).ok /\ returned = Undefined
  /\ returned # Undefined => pc = "done" /\ (LineMode => Len(pending) = 0)

\* the stream failed after Records were collected and before the last line
C12_Witness ==
  pc = "failed" /\ Len(lines) > 0 /\ Len(pending) > 0 /\ returned = Undefined

(***************************************************************************)
(* Reading the result of stats                                             *)
(***************************************************************************)
\* the sum of the elements, taken from the last element down
RECURSIVE SumOf(_)
SumOf(arr) == IF Len(arr) = 0 THEN 0 ELSE SumOf(SubSeq(arr, 1, Len(arr) - 1)) + arr[Len(arr)]

Elements(arr) == {arr[i] : i \in 1..Len(arr)}

Below(arr, m) == Cardinality({i \in 1..Len(arr) : arr[i] < m})
Above(arr, m) == Cardinality({i \in 1..Len(arr) : arr[i] > m})

\* the middle element of the ascending order of an odd-length array: as many
\* positions at most on either side of it
Middle(arr) ==
  CHOOSE m \in Elements(arr) :
    /\ Below(arr, m) <= (Len(arr) - 1) \div 2
    /\ Above(arr, m) <= (Len(arr) - 1) \div 2

\* the fraction q is the number x
FracIs(q, x) == q.den # 0 /\ q.num = x * q.den

\* the fraction q is a / b
FracIsQuotient(q, a, b) == q.den # 0 /\ b # 0 /\ q.num * b = a * q.den

(***************************************************************************)
(* C13: for a non-empty array of integers stats returns count = the length *)
(* of the array, sum = the sum of its elements, min and max = its least    *)
(* and greatest element, avg = sum / count, and for an odd length p50 =    *)
(* the middle element of the ascending order; and the array given is left  *)
(* in its original order.                                                  *)
(***************************************************************************)
C13_Stats ==
  /\ [](statsResult # NoStats =>
          /\ statsResult.count = Len(values)
          /\ statsResult.sum = SumOf(values)
          /\ statsResult.min \in Elements(values)
          /\ \A v \in Elements(values) : statsResult.min <= v
          /\ statsResult.max \in Elements(values)
          /\ \A v \in Elements(values) : statsResult.max >= v
          /\ FracIsQuotient(statsResult.avg, SumOf(values), Len(values))
          /\ Len(values) % 2 = 1 => FracIs(statsResult.p50, Middle(values)))
  /\ [][values' = values]_vars

\* stats has returned for an odd-length array that is not in ascending order
C13_Witness ==
  /\ statsResult # NoStats
  /\ Len(values) = 3
  /\ values[1] > values[2]
  /\ values[2] < values[3]
  /\ values[1] # values[3]

\* the text of the block that call i closes: the open lines and the line itself
ClosedText(i) == join(Append(seen[i].open, seen[i].line), <<"\n">>)

\* call i meets an open block and the line that closes it
ClosesBlock(i) == Len(seen[i].open) > 0 /\ seen[i].line = LClose

(***************************************************************************)
(* C14: when a block is open, the closing line arrives and the accumulated *)
(* text does not parse, exactly one Record is emitted, its raw text is the *)
(* newline-joined text of the whole block, from the opening line to the    *)
(* closing line, and no block is open afterwards.                          *)
(***************************************************************************)
C14_FailedBlockRaw ==
  \A i \in Calls :
    ClosesBlock(i) /\ ~JSONparse(ClosedText(i)).ok =>
      /\ Emitted(i)
      /\ GetProp(seen[i].rec, RawLineKey) = JStr(ClosedText(i))
      /\ OpenAfter(i) = <<>>

(***************************************************************************)
(* C15: while a block is open every line that does not close it, a line    *)
(* `{` and a single-line JSON object among them, is appended as it is to   *)
(* the end of the accumulated lines, and the lines accumulated before it   *)
(* stay.                                                                   *)
(***************************************************************************)
C15_AppendWhileOpen ==
  \A i \in Calls :
    Len(seen[i].open) > 0 /\ seen[i].line # LClose =>
      OpenAfter(i) = Append(seen[i].open, seen[i].line)

\* the calls that start a block: a line `{` met with no block open
Starts == {j \in Calls : seen[j].line = LOpen /\ seen[j].open = <<>>}

\* the calls that emitted a Record while a block was open
BlockRecords == {i \in Calls : Len(seen[i].open) > 0 /\ Emitted(i)}

\* no call after j up to n emitted a Record or left the block closed
OpenAndSilent(j, n) ==
  \A m \in j..n : Silent(m) /\ Len(OpenAfter(m)) > 0

(***************************************************************************)
(* C16: a block, started by a line `{` met with no block open, ends in one *)
(* of two ways: at the first line `}` after it, which emits exactly one    *)
(* Record and leaves no block open, every line before that adding no       *)
(* Record; or it is still open when the input ends and has emitted         *)
(* nothing.  So the Records that came from blocks are as many as the       *)
(* blocks started, less one if a block is open, and there is one open      *)
(* block at most.                                                          *)
(***************************************************************************)
C16_BlockLifecycle ==
  /\ \A j \in Starts :
       \/ \E i \in Calls : /\ IsBlock(j, i)
                           /\ OpenAndSilent(j, i - 1)
                           /\ Emitted(i)
                           /\ OpenAfter(i) = <<>>
       \/ IsDangling(j) /\ OpenAndSilent(j, Len(seen))
  /\ Cardinality(BlockRecords)
       = Cardinality(Starts) - (IF Len(openLines) > 0 THEN 1 ELSE 0)
  /\ Cardinality({j \in Starts : IsDangling(j)})
       = (IF Len(openLines) > 0 THEN 1 ELSE 0)

\* the input has ended with one block closed and a later one still open
C16_Witness ==
  /\ pc = "done"
  /\ Cardinality(Starts) = 2
  /\ Cardinality(BlockRecords) = 1
  /\ Len(openLines) > 0

(***************************************************************************)
(* C17: each processed line emits one Record at most; with no block open   *)
(* every line other than `{` emits exactly one; with a block open only a   *)
(* line `}` emits one; a non-empty open-block state starts with the line   *)
(* `{`; hence there are never more Records than lines processed.           *)
(***************************************************************************)
C17_Accounting ==
  /\ \A i \in Calls :
       /\ Emitted(i) \/ Silent(i)
       /\ Len(seen[i].open) = 0 /\ seen[i].line # LOpen => Emitted(i)
       /\ Len(seen[i].open) > 0 /\ Emitted(i) => seen[i].line = LClose
       /\ Len(seen[i].open) > 0 => seen[i].open[1] = LOpen
  /\ Len(openLines) > 0 => openLines[1] = LOpen
  /\ Len(lines) <= lineCount

\* three lines were processed: one emitted a Record with no block open, one
\* opened a block, one was taken into it
C17_Witness ==
  /\ lineCount = 3
  /\ Len(lines) = 1
  /\ Len(openLines) = 2
  /\ Emitted(1)

(***************************************************************************)
(* Reading the outcome of main                                             *)
(***************************************************************************)
\* the options in force: the environment's value, or the default when unset
OutputOption == IF env.JSON_OUTPUT = "" THEN "json_pretty" ELSE env.JSON_OUTPUT
StringifierOption == IF env.JSON_STRINGIFIER = "" THEN "stable" ELSE env.JSON_STRINGIFIER

ValidOptions ==
  /\ OutputOption \in {"json", "json_pretty", "raw", "jsonl"}
  /\ StringifierOption \in {"stable", "default"}

\* what was printed is the result: one line per element for an array printed
\* as jsonl, the whole result in one call otherwise
PrintedResult ==
  IF OutputOption = "jsonl" /\ processedData.t = "arr"
  THEN /\ Len(printed) = Len(processedData.kids)
       /\ \A i \in 1..Len(printed) : printed[i].data = processedData.kids[i].v
  ELSE Len(printed) = 1 /\ printed[1].data = processedData

(***************************************************************************)
(* C18: with a valid JSON_OUTPUT and a valid JSON_STRINGIFIER main prints  *)
(* the result, whatever it is (scalar, array, object, null), and does not  *)
(* throw; main throws only when one of the two options is not valid, and   *)
(* then nothing has been printed.                                          *)
(***************************************************************************)
C18_OutputTotal ==
  /\ mainPc = "thrown" => ~ValidOptions /\ printed = <<>>
  /\ mainPc = "printed" => ValidOptions /\ PrintedResult

====
